---------------------------- MODULE Spec2Model ----------------------------
(*
  Model of the plugin loader of src/src/plugin_loader.py:
    PluginLoader   (construction of the records, the four phase drivers,
                    get_ordered_plugins)
    _Plugin        (create_from_entry_point, key, requirements,
                    check_required_plugin_types)
    _PluginGraph   (add_all, the three steps of get_ordered_plugins)

  A run starts from a sequence of entry points and the ignore_missing flag,
  constructs the records (PluginLoader.__init__) and then lets the host call
  the public methods of the loader in any order, any number of times.  Each
  call is one action; the callbacks of the plugins are outside the loader
  and may raise, which is an input of the action.
*)
EXTENDS Integers, Sequences, FiniteSets, TLC

VARIABLES
    entry_points,    \* the entry points handed to PluginLoader.__init__
    ignore_missing,  \* PluginLoader._ignore_missing
    plugins,         \* PluginLoader._plugins (<<>> before construction)
    created,         \* TRUE once __init__ has returned
    import_log,      \* log lines written by _create_plugins, in order
    op,              \* "new", "idle", or the method that has just run
    calls,           \* plugin callbacks invoked by that call, in order
    reports,         \* notify_plugin_exception calls made by that call
    result,          \* what that call returned ("raised": it raised)
    ordering         \* what get_ordered_plugins returned or raised

vars == <<entry_points, ignore_missing, plugins, created, import_log,
          op, calls, reports, result, ordering>>

-----------------------------------------------------------------------------
(* Bounds and input domains *)

\* Largest number of entry points handed to the loader.
MaxPlugins == 3

TOOLS_MODE == "tools_mode"

\* One element of the value a plugin returns from get_required_plugins():
\* a RequiredPlugin(module, name), or something that is no RequiredPlugin.
Req(m, n) == [isReq |-> TRUE, module |-> m, name |-> n]
Junk      == [isReq |-> FALSE, module |-> "", name |-> ""]

\* An entry point.  outcome is what loading and constructing it does:
\*   "plugin"     load() yields a class whose instance is a CliPlugin
\*   "none"       load() yields None (the file defines no Plugin class)
\*   "missing"    load() raises ModuleNotFoundError
\*   "load_error" load() raises another exception
\*   "ctor_error" the class raises an Exception that is no
\*                ModuleNotFoundError, or its instance is no CliPlugin
\*   "ctor_missing" the class raises ModuleNotFoundError
\*   "ctor_exit"  the class raises a BaseException that is no Exception
\*   "no_dist"    entry_point.dist is empty
\* tools tells whether the instance is a ToolsPlugin, isList and reqs are
\* the value its get_required_plugins() returns.
EntryPoint(m, n, o, t, l, r) ==
    [module |-> m, name |-> n, outcome |-> o, tools |-> t, isList |-> l, reqs |-> r]

\* Entry points of the ordering runs: every one constructs a record that
\* is no ToolsPlugin; keys and requirement lists vary.  Three keys share
\* the module "x" and can require one another, ("y", "a") shares its local
\* name with ("x", "a").
A == Req("", "a")
B == Req("", "b")
C == Req("x", "c")

GraphReqLists ==
    {<<>>, <<A>>, <<B>>, <<C>>, <<A, B>>, <<B, A>>}

GraphEntryPoints ==
    {EntryPoint("x", n, "plugin", FALSE, TRUE, r) :
        <<n, r>> \in {"a", "b", "c"} \X GraphReqLists}
    \cup {EntryPoint("y", "a", "plugin", FALSE, TRUE, r) : r \in {<<>>, <<B>>}}
    \cup {EntryPoint("x", "a", "plugin", FALSE, TRUE, <<Junk>>),
          EntryPoint("x", "b", "plugin", FALSE, FALSE, <<A>>)}

\* Entry points of the lifecycle runs: construction outcomes, tools
\* capability, the local name tools_mode and a few requirement lists vary.
T == Req("", TOOLS_MODE)

LifeEntryPoints ==
    {EntryPoint("x", "a", o, FALSE, TRUE, <<>>) :
        o \in {"none", "missing", "load_error", "ctor_error"}}
    \cup {EntryPoint("x", "a", "plugin", TRUE, TRUE, r) : r \in {<<>>, <<T>>}}
    \cup {EntryPoint("x", TOOLS_MODE, "plugin", TRUE, TRUE, r) : r \in {<<>>, <<A>>}}
    \cup {EntryPoint("x", "b", "plugin", TRUE, TRUE, r) : r \in {<<>>, <<Junk>>}}
    \cup {EntryPoint("x", "a", "plugin", FALSE, TRUE, <<>>)}

\* Entry points of the construction runs: every outcome of loading and
\* constructing an entry point.
CreateOutcomes ==
    {"plugin", "none", "missing", "load_error", "ctor_error", "ctor_missing",
     "ctor_exit", "no_dist"}

CreateEntryPoints ==
    {EntryPoint("x", "a", o, FALSE, TRUE, <<>>) : o \in CreateOutcomes}
    \cup {EntryPoint("x", "b", "plugin", TRUE, TRUE, <<>>)}

SeqsUpTo(S, n) == UNION {[1..k -> S] : k \in 0..n}

-----------------------------------------------------------------------------
(* Small helpers on sequences *)

Range(s) == {s[i] : i \in 1..Len(s)}

-----------------------------------------------------------------------------
(* _Plugin *)

\* _Plugin.__init__: the record of entry point number i.  id stands for the
\* identity of the Python object: two records with equal keys stay distinct.
Plugin(ep, i) ==
    [id |-> i, module_name |-> ep.module, name |-> ep.name,
     tools |-> ep.tools, isList |-> ep.isList, reqs |-> ep.reqs]

\* _Plugin.key
key(p) == <<p.module_name, p.name>>

\* RequiredPlugin.key
req_key(r) == <<r.module, r.name>>

\* (mutant) the requirements as declared, an empty module left empty
requirements_as_declared(p) ==
    [j \in 1..Len(p.reqs) |-> Req(p.reqs[j].module, p.reqs[j].name)]

\* _Plugin.requirements: each requirement rebuilt with the record's own
\* module in place of an empty one
requirements(p) ==
    [j \in 1..Len(p.reqs) |->
        Req(IF p.reqs[j].module # "" THEN p.reqs[j].module ELSE p.module_name,
            p.reqs[j].name)]

\* is_list_of(self.plugin.get_required_plugins(), RequiredPlugin)
is_list_of_required(p) ==
    p.isList /\ \A j \in 1..Len(p.reqs) : p.reqs[j].isReq

\* (mutant) module() called without the try/except of _create_plugin
create_plugin_unwrapped(ep) ==
    CASE ep.outcome = "missing"      -> "ModuleNotFoundError"
      [] ep.outcome = "load_error"   -> "Exception"
      [] ep.outcome = "none"         -> "none"
      [] ep.outcome = "ctor_error"   -> "Exception"
      [] ep.outcome = "ctor_missing" -> "ModuleNotFoundError"
      [] ep.outcome = "ctor_exit"    -> "BaseException"
      [] OTHER                       -> "plugin"

\* _Plugin._create_plugin: what leaves the call.
\*   kind "plugin": the CliPlugin instance, "none": None,
\*   otherwise the class of the exception raised.
create_plugin(ep) ==
    CASE ep.outcome = "missing"    -> "ModuleNotFoundError"
      [] ep.outcome = "load_error" -> "Exception"
      [] ep.outcome = "none"       -> "none"
      [] ep.outcome \in {"ctor_error", "ctor_missing"} -> "PluginError"
      [] ep.outcome = "ctor_exit"  -> "BaseException"
      [] OTHER                     -> "plugin"

\* _Plugin.create_from_entry_point: an entry point without dist raises
\* PluginError, a PluginError of _create_plugin is raised again as
\* PluginError, everything else leaves as _create_plugin left it
create_from_entry_point(ep) ==
    IF ep.outcome = "no_dist" THEN "PluginError"
    ELSE LET made == create_plugin(ep)
         IN  IF made = "PluginError" THEN "PluginError" ELSE made

-----------------------------------------------------------------------------
(* PluginLoader._create_plugins *)

\* a line of the log: ErrorLine is notify_plugin_exception(message, e), which
\* names the entry point and the class of e; DebugLine names no class
ErrorLine(what, who, exc) ==
    [level |-> "error", what |-> what, who |-> who, exc |-> exc]
DebugLine(what, who) ==
    [level |-> "debug", what |-> what, who |-> who, exc |-> ""]

\* (mutant) the first failing entry point ends the loop
RECURSIVE create_plugins_from_abort(_, _, _, _)
create_plugins_from_abort(eps, ignore, i, acc) ==
    IF i > Len(eps) THEN acc
    ELSE LET out == create_from_entry_point(eps[i])
         IN  CASE out = "plugin" ->
                    create_plugins_from_abort(eps, ignore, i + 1,
                        [acc EXCEPT !.list = Append(@, Plugin(eps[i], i))])
               [] out = "none" -> create_plugins_from_abort(eps, ignore, i + 1, acc)
               [] out = "ModuleNotFoundError" /\ ignore ->
                    [acc EXCEPT !.log = Append(@, DebugLine("Ignoring missing plugin", i))]
               [] OTHER ->
                    [acc EXCEPT !.log = Append(@, ErrorLine("Importing plugin", i, out))]

\* (mutant) a ModuleNotFoundError is reported whatever _ignore_missing is
RECURSIVE create_plugins_from_reporting(_, _, _, _)
create_plugins_from_reporting(eps, ignore, i, acc) ==
    IF i > Len(eps) THEN acc
    ELSE LET out == create_from_entry_point(eps[i])
             next ==
               CASE out = "plugin" ->
                      [acc EXCEPT !.list = Append(@, Plugin(eps[i], i))]
                 [] out = "none" -> acc
                 [] OTHER ->
                      [acc EXCEPT !.log = Append(@, ErrorLine("Importing plugin", i, out))]
         IN  create_plugins_from_reporting(eps, ignore, i + 1, next)

\* the loop of _create_plugins from entry point i on; acc is
\* [list |-> plugin_list, log |-> lines written so far]
RECURSIVE create_plugins_from(_, _, _, _)
create_plugins_from(eps, ignore, i, acc) ==
    IF i > Len(eps) THEN acc
    ELSE LET out == create_from_entry_point(eps[i])
             next ==
               CASE out = "plugin" ->
                      [acc EXCEPT !.list = Append(@, Plugin(eps[i], i))]
                 [] out = "none" -> acc
                 [] out = "ModuleNotFoundError" ->
                      IF ~ignore
                      THEN [acc EXCEPT !.log = Append(@, ErrorLine("Importing plugin", i, out))]
                      ELSE [acc EXCEPT !.log = Append(@, DebugLine("Ignoring missing plugin", i))]
                 [] OTHER ->
                      [acc EXCEPT !.log = Append(@, ErrorLine("Importing plugin", i, out))]
         IN  create_plugins_from(eps, ignore, i + 1, next)

create_plugins(eps, ignore) ==
    create_plugins_from(eps, ignore, 1, [list |-> <<>>, log |-> <<>>])

-----------------------------------------------------------------------------
(* _PluginGraph.  The dict _plugins is a sequence of records with distinct
   keys, in insertion order: assigning to a key already present keeps the
   key's position and replaces its value. *)

RECURSIVE key_index(_, _, _)
key_index(graph, k, i) ==
    IF i > Len(graph) THEN 0
    ELSE IF key(graph[i]) = k THEN i
    ELSE key_index(graph, k, i + 1)

\* (mutant) a key already in the graph keeps its first record
add_keeping_first(graph, p) ==
    LET i == key_index(graph, key(p), 1)
    IN  IF i = 0 THEN Append(graph, p) ELSE graph

\* _PluginGraph.add
add(graph, p) ==
    LET i == key_index(graph, key(p), 1)
    IN  IF i = 0 THEN Append(graph, p) ELSE [graph EXCEPT ![i] = p]

\* _PluginGraph.add_all, from the i-th plugin of the list on
RECURSIVE add_all_from(_, _, _)
add_all_from(graph, list, i) ==
    IF i > Len(list) THEN graph
    ELSE add_all_from(add(graph, list[i]), list, i + 1)

add_all(list) == add_all_from(<<>>, list, 1)

graph_keys(graph) == {key(graph[i]) : i \in 1..Len(graph)}

\* The outcome of an ordering: the ordered list, or the PluginError raised.
\*   error   "" (none), "type", "missing" or "cycle"
\*   who     the record the error names (its str(): module.name)
\*   req     the requirement the "missing" error names
\*   names   the local names the "cycle" error lists
\*   passes  the number of passes of the while loop that ran
\*   got     the class the "type" error names
\*   placed  the number of records each pass of the while loop placed
NoKey == <<"", "">>
Ordered(list, n) ==
    [error |-> "", list |-> list, who |-> NoKey, req |-> NoKey,
     names |-> <<>>, passes |-> n, got |-> "", placed |-> <<>>]
OrderError(e, who, req, names, n) ==
    [error |-> e, list |-> <<>>, who |-> who, req |-> req,
     names |-> names, passes |-> n, got |-> "", placed |-> <<>>]

\* no call of get_ordered_plugins has returned yet
NotOrdered == OrderError("unset", NoKey, NoKey, <<>>, 0)

\* full_class_name(self.plugin.get_required_plugins()): the class of the
\* value the plugin returned, as the type error words it
full_class_name(p) == IF p.isList THEN "list" ELSE "not a list"

\* (mutant) the last record whose check raises instead of the first
RECURSIVE check_required_plugin_types_last(_, _)
check_required_plugin_types_last(graph, i) ==
    IF i > Len(graph) THEN 0
    ELSE LET later == check_required_plugin_types_last(graph, i + 1)
         IN  IF later # 0 THEN later
             ELSE IF ~is_list_of_required(graph[i]) THEN i
             ELSE 0

\* _PluginGraph._check_required_plugin_types: the position of the first
\* record whose check_required_plugin_types raises, 0 when none does
RECURSIVE check_required_plugin_types(_, _)
check_required_plugin_types(graph, i) ==
    IF i > Len(graph) THEN 0
    ELSE IF ~is_list_of_required(graph[i]) THEN i
    ELSE check_required_plugin_types(graph, i + 1)

\* (mutant) the last unresolved pair instead of the first
RECURSIVE check_for_non_existing_requirements_last(_, _, _)
check_for_non_existing_requirements_last(graph, i, j) ==
    IF i > Len(graph) THEN <<0, 0>>
    ELSE IF j > Len(graph[i].reqs)
         THEN check_for_non_existing_requirements_last(graph, i + 1, 1)
    ELSE LET later == check_for_non_existing_requirements_last(graph, i, j + 1)
         IN  IF later # <<0, 0>> THEN later
             ELSE IF req_key(requirements(graph[i])[j]) \notin graph_keys(graph)
                  THEN <<i, j>>
             ELSE <<0, 0>>

\* _PluginGraph._check_for_non_existing_requirements: the first pair
\* <<i, j>> (record i, its j-th requirement) whose key is not in the
\* graph, <<0, 0>> when every requirement is
RECURSIVE check_for_non_existing_requirements(_, _, _)
check_for_non_existing_requirements(graph, i, j) ==
    IF i > Len(graph) THEN <<0, 0>>
    ELSE IF j > Len(graph[i].reqs)
         THEN check_for_non_existing_requirements(graph, i + 1, 1)
    ELSE IF req_key(requirements(graph[i])[j]) \notin graph_keys(graph)
         THEN <<i, j>>
    ELSE check_for_non_existing_requirements(graph, i, j + 1)

\* (mutant) a record counts as unresolved only while none of its
\* requirements is placed
unresolved_dependencies_none_placed(p, ordered_set) ==
    /\ Len(p.reqs) > 0
    /\ \A j \in 1..Len(p.reqs) : req_key(requirements(p)[j]) \notin ordered_set

\* the inner for loop of _get_sorted_plugins over plugin.requirements
unresolved_dependencies(p, ordered_set) ==
    \E j \in 1..Len(p.reqs) : req_key(requirements(p)[j]) \notin ordered_set

\* (mutant) appended is reset for every record looked at: it tells whether
\* the last record of the pass was placed
RECURSIVE sort_pass_flag_of_last(_, _, _)
sort_pass_flag_of_last(graph, i, st) ==
    IF i > Len(graph) THEN st
    ELSE IF key(graph[i]) \in st.set
         THEN sort_pass_flag_of_last(graph, i + 1, [st EXCEPT !.appended = FALSE])
    ELSE IF unresolved_dependencies(graph[i], st.set)
         THEN sort_pass_flag_of_last(graph, i + 1, [st EXCEPT !.appended = FALSE])
    ELSE sort_pass_flag_of_last(graph, i + 1,
                   [st EXCEPT !.list = Append(@, graph[i]),
                              !.set = @ \cup {key(graph[i])},
                              !.appended = TRUE])

\* (mutant) a pass goes through the graph from its last record to its first
RECURSIVE sort_pass_backwards(_, _, _)
sort_pass_backwards(graph, i, st) ==
    IF i > Len(graph) THEN st
    ELSE LET p == graph[Len(graph) + 1 - i]
         IN  IF key(p) \in st.set THEN sort_pass_backwards(graph, i + 1, st)
             ELSE IF unresolved_dependencies(p, st.set)
                  THEN sort_pass_backwards(graph, i + 1, st)
             ELSE sort_pass_backwards(graph, i + 1,
                            [st EXCEPT !.list = Append(@, p),
                                       !.set = @ \cup {key(p)},
                                       !.appended = TRUE])

\* one pass of the while loop of _get_sorted_plugins, from record i on;
\* st is [list |-> ordered_plugins, set |-> ordered_set, appended |-> ..,
\* placed |-> the number of records each earlier pass placed]
RECURSIVE sort_pass(_, _, _)
sort_pass(graph, i, st) ==
    IF i > Len(graph) THEN st
    ELSE IF key(graph[i]) \in st.set THEN sort_pass(graph, i + 1, st)
    ELSE IF unresolved_dependencies(graph[i], st.set)
         THEN sort_pass(graph, i + 1, st)
    ELSE sort_pass(graph, i + 1,
                   [st EXCEPT !.list = Append(@, graph[i]),
                              !.set = @ \cup {key(graph[i])},
                              !.appended = TRUE])

\* (mutant) the test "key not in ordered_set" skips the record after an
\* unplaced one
RECURSIVE unplaced_skipping(_, _, _)
unplaced_skipping(graph, ordered_set, i) ==
    IF i > Len(graph) THEN <<>>
    ELSE IF key(graph[i]) \notin ordered_set
         THEN <<graph[i]>> \o unplaced_skipping(graph, ordered_set, i + 2)
    ELSE unplaced_skipping(graph, ordered_set, i + 1)

\* (mutant) the error lists every record of the graph
RECURSIVE unplaced_all(_, _, _)
unplaced_all(graph, ordered_set, i) ==
    IF i > Len(graph) THEN <<>>
    ELSE <<graph[i]>> \o unplaced_all(graph, ordered_set, i + 1)

\* the records left unplaced, in graph order (the list "cycle")
RECURSIVE unplaced(_, _, _)
unplaced(graph, ordered_set, i) ==
    IF i > Len(graph) THEN <<>>
    ELSE IF key(graph[i]) \notin ordered_set
         THEN <<graph[i]>> \o unplaced(graph, ordered_set, i + 1)
    ELSE unplaced(graph, ordered_set, i + 1)

\* _PluginGraph._get_sorted_plugins: the while loop, n passes done so far
RECURSIVE get_sorted_plugins(_, _, _)
get_sorted_plugins(graph, st, n) ==
    LET pass == sort_pass(graph, 1, [st EXCEPT !.appended = FALSE])
        after == [pass EXCEPT !.placed = Append(@, Len(pass.list) - Len(st.list))]
    IN  IF after.appended THEN get_sorted_plugins(graph, after, n + 1)
        ELSE IF Len(after.list) # Len(graph)
             THEN LET cycle == unplaced(graph, after.set, 1)
                  IN  [OrderError("cycle", NoKey, NoKey,
                                  [c \in 1..Len(cycle) |-> key(cycle[c])[2]], n + 1)
                          EXCEPT !.placed = after.placed]
        ELSE [Ordered(after.list, n + 1) EXCEPT !.placed = after.placed]

\* (mutant) the sort runs before the check for non-existing requirements
graph_get_ordered_plugins_sorting_first(graph) ==
    LET t == check_required_plugin_types(graph, 1)
        m == check_for_non_existing_requirements(graph, 1, 1)
        s == get_sorted_plugins(graph, [list |-> <<>>, set |-> {}, appended |-> FALSE,
                                        placed |-> <<>>], 0)
    IN  IF t # 0
        THEN [OrderError("type", key(graph[t]), NoKey, <<>>, 0) EXCEPT !.got = full_class_name(graph[t])]
        ELSE IF s.error # "" THEN s
        ELSE IF m # <<0, 0>>
             THEN OrderError("missing", key(graph[m[1]]), req_key(requirements(graph[m[1]])[m[2]]), <<>>, 0)
        ELSE s

\* _PluginGraph.get_ordered_plugins
graph_get_ordered_plugins(graph) ==
    LET t == check_required_plugin_types(graph, 1)
        m == check_for_non_existing_requirements(graph, 1, 1)
    IN  IF t # 0
        THEN [OrderError("type", key(graph[t]), NoKey, <<>>, 0)
                 EXCEPT !.got = full_class_name(graph[t])]
        ELSE IF m # <<0, 0>>
             THEN OrderError("missing", key(graph[m[1]]),
                             req_key(requirements(graph[m[1]])[m[2]]), <<>>, 0)
        ELSE get_sorted_plugins(graph,
                                [list |-> <<>>, set |-> {}, appended |-> FALSE,
                                 placed |-> <<>>], 0)

\* PluginLoader.get_ordered_plugins
get_ordered_plugins(list) == graph_get_ordered_plugins(add_all(list))

-----------------------------------------------------------------------------
(* PluginLoader: the phase drivers.  failing is the set of ids of the
   records whose callback raises when the driver invokes it, falsy the set
   of ids of the records whose tools callback returns a false value (none
   of them, or every one that returns). *)

Call(p, failing) == [id |-> p.id, raised |-> p.id \in failing]

\* notify_plugin_exception(message, exception): the message names the plugin
\* by plugin.name ("" for the messages that name none)
Report(what, who) == [what |-> what, who |-> who]

\* what a driver leaves behind
Outcome(c, r, res) == [calls |-> c, reports |-> r, result |-> res]

\* (mutant) a failed ordering leaves the driver with an empty sequence
ordered_or_fallback_empty(list, what) ==
    LET o == get_ordered_plugins(list)
    IN  IF o.error = "" THEN <<o.list, <<>>>>
        ELSE <<<<>>, <<Report(what, "")>>>>

\* the try/except around self.get_ordered_plugins() of on_tools_load and
\* load: <<the sequence the driver iterates, the reports made>>
ordered_or_fallback(list, what) ==
    LET o == get_ordered_plugins(list)
    IN  IF o.error = "" THEN <<o.list, <<>>>>
        ELSE <<list, <<Report(what, "")>>>>

\* (mutant) every registration callback in a try/except that goes on
RECURSIVE add_command_line_arguments_from_isolated(_, _, _, _)
add_command_line_arguments_from_isolated(list, failing, i, c) ==
    IF i > Len(list) THEN Outcome(c, <<>>, "None")
    ELSE add_command_line_arguments_from_isolated(list, failing, i + 1,
                                                  Append(c, Call(list[i], failing)))

\* PluginLoader.add_command_line_arguments: the for loop from position i
RECURSIVE add_command_line_arguments_from(_, _, _, _)
add_command_line_arguments_from(list, failing, i, c) ==
    IF i > Len(list) THEN Outcome(c, <<>>, "None")
    ELSE IF list[i].id \in failing
         THEN Outcome(Append(c, Call(list[i], failing)), <<>>, "raised")
    ELSE add_command_line_arguments_from(list, failing, i + 1,
                                         Append(c, Call(list[i], failing)))

\* (mutant) the registration callbacks invoked in dependency order
add_command_line_arguments_ordered(list, failing) ==
    add_command_line_arguments_from(ordered_or_fallback(list, "")[1], failing, 1, <<>>)

add_command_line_arguments(list, failing) ==
    add_command_line_arguments_from(list, failing, 1, <<>>)

\* tools_plugin.on_tools_load(state=state) of record p: it raises, or it
\* returns a value, which for the records in falsy is a false one
ToolsCall(p, failing, falsy) ==
    [id |-> p.id, raised |-> p.id \in failing,
     returned |-> IF p.id \in failing THEN "nothing"
                  ELSE IF p.id \in falsy THEN "False" ELSE "None"]

\* (mutant) a failing tools_mode is reported and skipped like any other
RECURSIVE on_tools_load_from_no_abort(_, _, _, _, _)
on_tools_load_from_no_abort(seq, failing, falsy, i, out) ==
    IF i > Len(seq) THEN out
    ELSE IF ~seq[i].tools THEN on_tools_load_from_no_abort(seq, failing, falsy, i + 1, out)
    ELSE LET called == [out EXCEPT !.calls = Append(@, ToolsCall(seq[i], failing, falsy))]
         IN  IF seq[i].id \notin failing
             THEN on_tools_load_from_no_abort(seq, failing, falsy, i + 1, called)
             ELSE on_tools_load_from_no_abort(seq, failing, falsy, i + 1,
                      [called EXCEPT
                          !.result = "False",
                          !.reports = Append(@, Report("Loading tools plugin",
                                                       seq[i].name))])

\* (mutant) any failing tools plugin ends the phase
RECURSIVE on_tools_load_from_abort_any(_, _, _, _, _)
on_tools_load_from_abort_any(seq, failing, falsy, i, out) ==
    IF i > Len(seq) THEN out
    ELSE IF ~seq[i].tools THEN on_tools_load_from_abort_any(seq, failing, falsy, i + 1, out)
    ELSE LET called == [out EXCEPT !.calls = Append(@, ToolsCall(seq[i], failing, falsy))]
         IN  IF seq[i].id \notin failing
             THEN on_tools_load_from_abort_any(seq, failing, falsy, i + 1, called)
             ELSE IF seq[i].name = TOOLS_MODE
                  THEN [called EXCEPT !.result = "False"]
             ELSE [called EXCEPT
                      !.result = "False",
                      !.reports = Append(@, Report("Loading tools plugin",
                                                   seq[i].name))]

\* (mutant) the value a tools callback returns is taken for its success
RECURSIVE on_tools_load_from_using_return(_, _, _, _, _)
on_tools_load_from_using_return(seq, failing, falsy, i, out) ==
    IF i > Len(seq) THEN out
    ELSE IF ~seq[i].tools
         THEN on_tools_load_from_using_return(seq, failing, falsy, i + 1, out)
    ELSE LET called == [out EXCEPT !.calls = Append(@, ToolsCall(seq[i], failing, falsy))]
         IN  IF seq[i].id \notin failing
             THEN on_tools_load_from_using_return(seq, failing, falsy, i + 1,
                      IF seq[i].id \in falsy
                      THEN [called EXCEPT !.result = "False"]
                      ELSE called)
             ELSE IF seq[i].name = TOOLS_MODE
                  THEN [called EXCEPT !.result = "False"]
             ELSE on_tools_load_from_using_return(seq, failing, falsy, i + 1,
                      [called EXCEPT
                          !.result = "False",
                          !.reports = Append(@, Report("Loading tools plugin",
                                                       seq[i].name))])

\* (mutant) no isinstance test: the callback of every record is invoked
RECURSIVE on_tools_load_from_all_records(_, _, _, _, _)
on_tools_load_from_all_records(seq, failing, falsy, i, out) ==
    IF i > Len(seq) THEN out
    ELSE LET called == [out EXCEPT !.calls = Append(@, ToolsCall(seq[i], failing, falsy))]
         IN  IF seq[i].id \notin failing
             THEN on_tools_load_from_all_records(seq, failing, falsy, i + 1, called)
             ELSE IF seq[i].name = TOOLS_MODE
                  THEN [called EXCEPT !.result = "False"]
             ELSE on_tools_load_from_all_records(seq, failing, falsy, i + 1,
                      [called EXCEPT
                          !.result = "False",
                          !.reports = Append(@, Report("Loading tools plugin",
                                                       seq[i].name))])

\* PluginLoader.on_tools_load: the for loop over ordered_plugins from i;
\* out is what the call has done so far
RECURSIVE on_tools_load_from(_, _, _, _, _)
on_tools_load_from(seq, failing, falsy, i, out) ==
    IF i > Len(seq) THEN out
    ELSE IF ~seq[i].tools THEN on_tools_load_from(seq, failing, falsy, i + 1, out)
    ELSE LET called == [out EXCEPT !.calls = Append(@, ToolsCall(seq[i], failing, falsy))]
         IN  IF seq[i].id \notin failing
             THEN on_tools_load_from(seq, failing, falsy, i + 1, called)
             ELSE IF seq[i].name = TOOLS_MODE
                  THEN [called EXCEPT !.result = "False"]
             ELSE on_tools_load_from(seq, failing, falsy, i + 1,
                      [called EXCEPT
                          !.result = "False",
                          !.reports = Append(@, Report("Loading tools plugin",
                                                       seq[i].name))])

\* PluginLoader.on_tools_load, lines 190-196: <<ordered_plugins, reports>>
on_tools_load_sequence(list) ==
    ordered_or_fallback(list, "Ordering of plugins before tools load failed")

\* PluginLoader.on_tools_load, lines 198-221, o being what lines 190-196 left
on_tools_load(o, failing, falsy) ==
    on_tools_load_from(o[1], failing, falsy, 1, Outcome(<<>>, o[2], "True"))

\* (mutant) the first failing callback ends the loop
RECURSIVE isolated_loop_abort(_, _, _, _, _)
isolated_loop_abort(seq, failing, what, i, out) ==
    IF i > Len(seq) THEN out
    ELSE LET called == [out EXCEPT !.calls = Append(@, Call(seq[i], failing))]
         IN  IF seq[i].id \notin failing
             THEN isolated_loop_abort(seq, failing, what, i + 1, called)
             ELSE [called EXCEPT !.reports = Append(@, Report(what, seq[i].name))]

\* the for loop of on_start and of load: every callback in a try/except
\* that reports and goes on
RECURSIVE isolated_loop(_, _, _, _, _)
isolated_loop(seq, failing, what, i, out) ==
    IF i > Len(seq) THEN out
    ELSE LET called == [out EXCEPT !.calls = Append(@, Call(seq[i], failing))]
         IN  IF seq[i].id \notin failing
             THEN isolated_loop(seq, failing, what, i + 1, called)
             ELSE isolated_loop(seq, failing, what, i + 1,
                      [called EXCEPT
                          !.reports = Append(@, Report(what, seq[i].name))])

\* (mutant) on_start over the dependency order, as load does
on_start_ordered(list, failing) ==
    isolated_loop(ordered_or_fallback(list, "")[1], failing, "Starting plugin", 1,
                  Outcome(<<>>, <<>>, "None"))

\* PluginLoader.on_start
on_start(list, failing) ==
    isolated_loop(list, failing, "Starting plugin", 1, Outcome(<<>>, <<>>, "None"))

\* (mutant) load over self._plugins as constructed
load_sequence_unordered(list) == <<list, <<>>>>

\* PluginLoader.load, lines 253-257: <<ordered_plugins, reports>>
load_sequence(list) ==
    ordered_or_fallback(list, "Ordering of plugins before load failed")

\* PluginLoader.load, lines 259-266, o being what lines 253-257 left
load(o, failing) ==
    isolated_loop(o[1], failing, "Loading plugin", 1, Outcome(<<>>, o[2], "cli"))

-----------------------------------------------------------------------------
(* The state machine *)

ids(list) == {list[i].id : i \in 1..Len(list)}

InitWith(E) ==
    /\ entry_points \in SeqsUpTo(E, MaxPlugins)
    /\ ignore_missing \in BOOLEAN
    /\ plugins = <<>>
    /\ created = FALSE
    /\ import_log = <<>>
    /\ op = "new"
    /\ calls = <<>>
    /\ reports = <<>>
    /\ result = "None"
    /\ ordering = NotOrdered

Init == InitWith(LifeEntryPoints)

InitGraph == InitWith(GraphEntryPoints) /\ ignore_missing = FALSE

\* PluginLoader.__init__
Create ==
    /\ ~created
    /\ LET made == create_plugins(entry_points, ignore_missing)
       IN  /\ plugins' = made.list
           /\ import_log' = made.log
    /\ created' = TRUE
    /\ op' = "idle"
    /\ UNCHANGED <<entry_points, ignore_missing, calls, reports, result, ordering>>

\* (mutant) the driver drops from the record collection the records whose
\* callback raised
Driven_dropping_failed(name, out) ==
    /\ op' = name
    /\ calls' = out.calls
    /\ reports' = out.reports
    /\ result' = out.result
    /\ plugins' = SelectSeq(plugins,
                     LAMBDA p : \A c \in 1..Len(out.calls) :
                                   out.calls[c].id = p.id => ~out.calls[c].raised)
    /\ UNCHANGED <<entry_points, ignore_missing, created, import_log, ordering>>

\* a call of a phase driver that leaves outcome out
Driven(name, out) ==
    /\ op' = name
    /\ calls' = out.calls
    /\ reports' = out.reports
    /\ result' = out.result
    /\ UNCHANGED <<entry_points, ignore_missing, plugins, created, import_log,
                   ordering>>

AddCommandLineArguments ==
    /\ op = "idle"
    /\ \E failing \in SUBSET ids(plugins) :
          Driven("add_command_line_arguments",
                 add_command_line_arguments(plugins, failing))

OnToolsLoad ==
    /\ op = "idle"
    /\ LET o == on_tools_load_sequence(plugins)
       IN  \E failing \in SUBSET ids(plugins) :
           \E falsy \in {{}, ids(plugins) \ failing} :
              Driven("on_tools_load", on_tools_load(o, failing, falsy))

OnStart ==
    /\ op = "idle"
    /\ \E failing \in SUBSET ids(plugins) :
          Driven("on_start", on_start(plugins, failing))

Load ==
    /\ op = "idle"
    /\ LET o == load_sequence(plugins)
       IN  \E failing \in SUBSET ids(plugins) :
              Driven("load", load(o, failing))

\* (mutant) the sort consumes the records: the call leaves the loader with
\* an empty record collection
GetOrderedPlugins_consuming ==
    /\ op \in {"idle", "get_ordered_plugins"}
    /\ op' = "get_ordered_plugins"
    /\ ordering' = get_ordered_plugins(plugins)
    /\ result' = IF ordering'.error = "" THEN "list" ELSE "raised"
    /\ plugins' = <<>>
    /\ UNCHANGED <<calls, reports>>
    /\ UNCHANGED <<entry_points, ignore_missing, created, import_log>>

\* PluginLoader.get_ordered_plugins called by the host, for the first time
\* or again right after a call of it
GetOrderedPlugins ==
    /\ op \in {"idle", "get_ordered_plugins"}
    /\ op' = "get_ordered_plugins"
    /\ ordering' = get_ordered_plugins(plugins)
    /\ result' = IF ordering'.error = "" THEN "list" ELSE "raised"
    /\ UNCHANGED <<calls, reports>>
    /\ UNCHANGED <<entry_points, ignore_missing, plugins, created, import_log>>

\* the driver has returned to the host: what it left behind is dropped and
\* the host is free to call the next method
Return ==
    /\ op \notin {"new", "idle"}
    /\ op' = "idle"
    /\ calls' = <<>>
    /\ reports' = <<>>
    /\ result' = "None"
    /\ ordering' = NotOrdered
    /\ UNCHANGED <<entry_points, ignore_missing, plugins, created, import_log>>

Next ==
    \/ Create
    \/ AddCommandLineArguments
    \/ OnToolsLoad
    \/ OnStart
    \/ Load
    \/ GetOrderedPlugins
    \/ Return

Spec == Init /\ [][Next]_vars

\* the construction runs: __init__ over every outcome of an entry point
InitCreate == InitWith(CreateEntryPoints)

NextCreate == Create

SpecCreate == InitCreate /\ [][NextCreate]_vars

NextGraph ==
    \/ Create
    \/ GetOrderedPlugins
    \/ Return

SpecGraph == InitGraph /\ [][NextGraph]_vars

-----------------------------------------------------------------------------
(* The requirement graph of a list of records, stated without the code's
   algorithm: the vocabulary of the claims about ordering. *)

\* the record of each key that a graph built from list holds: the last
\* record of the list with that key
Retained(list) ==
    {list[i] : i \in {i \in 1..Len(list) :
                        \A j \in (i + 1)..Len(list) : key(list[j]) # key(list[i])}}

DistinctKeys(list) ==
    \A i, j \in 1..Len(list) : i # j => key(list[i]) # key(list[j])

\* every record returns a list of RequiredPlugin values
WellTyped(list) ==
    \A p \in Retained(list) :
        p.isList /\ \A j \in 1..Len(p.reqs) : p.reqs[j].isReq

\* the keys a record requires, an empty module read as the record's own
RequiredKeys(p) ==
    {<<IF p.reqs[j].module = "" THEN p.module_name ELSE p.reqs[j].module,
       p.reqs[j].name>> : j \in 1..Len(p.reqs)}

KeysOf(S) == {key(p) : p \in S}

AllResolve(list) ==
    \A p \in Retained(list) : RequiredKeys(p) \subseteq KeysOf(Retained(list))

\* the keys required by the records whose keys are in K
Targets(K, list) ==
    UNION {RequiredKeys(p) : p \in {q \in Retained(list) : key(q) \in K}}

\* K with everything reachable from it along at most n requirements
RECURSIVE Closure(_, _, _)
Closure(K, list, n) ==
    IF n = 0 THEN K ELSE Closure(K \cup Targets(K, list), list, n - 1)

\* the keys p requires directly or transitively
ReachableKeys(p, list) == Closure(RequiredKeys(p), list, Len(list))

\* p is on a requirement cycle: it requires itself, directly or transitively
OnCycle(p, list) == key(p) \in ReachableKeys(p, list)

Acyclic(list) == \A p \in Retained(list) : ~OnCycle(p, list)

\* s lists every record of set S exactly once and nothing else
ListsExactly(s, S) ==
    /\ Len(s) = Cardinality(S)
    /\ Range(s) = S

\* in s every record comes strictly after the records it requires
RequirementsFirst(s) ==
    \A r \in 1..Len(s) : \A k \in RequiredKeys(s[r]) :
        \E q \in 1..(r - 1) : key(s[q]) = k

-----------------------------------------------------------------------------
(* Claims *)

\* C1: for every well-typed, acyclic requirement graph whose records have
\* distinct keys and whose requirements all resolve to keys of the graph
\* (the empty graph included), get_ordered_plugins returns without error a
\* sequence that holds every record exactly once and in which every record
\* comes strictly after each record it requires.
C1_OrderIsTopological ==
    (/\ op = "get_ordered_plugins"
     /\ WellTyped(plugins) /\ DistinctKeys(plugins)
     /\ AllResolve(plugins) /\ Acyclic(plugins))
    => /\ ordering.error = ""
       /\ ListsExactly(ordering.list, Range(plugins))
       /\ RequirementsFirst(ordering.list)

\* C1 witness: three records in an insertion order that breaks the
\* requirements, one of them requiring the two others, have been ordered.
C1_Witness ==
    /\ op = "get_ordered_plugins"
    /\ WellTyped(plugins) /\ DistinctKeys(plugins)
    /\ AllResolve(plugins) /\ Acyclic(plugins)
    /\ Len(plugins) = 3
    /\ Len(plugins[1].reqs) = 2
    /\ ordering.error = ""
    /\ ordering.list # plugins

\* C2: for every well-typed requirement graph in which all requirements
\* resolve but some records form a requirement cycle (of any length, a
\* record that requires itself included), get_ordered_plugins returns no
\* sequence: it raises the cycle PluginError, whose message lists the
\* local name of every record on a cycle.
C2_CycleIsReported ==
    (/\ op = "get_ordered_plugins"
     /\ WellTyped(plugins) /\ AllResolve(plugins) /\ ~Acyclic(plugins))
    => /\ result = "raised"
       /\ ordering.error = "cycle"
       /\ ordering.list = <<>>
       /\ \A p \in Retained(plugins) :
             OnCycle(p, plugins) => p.name \in Range(ordering.names)

\* C2 witness: three records with distinct keys that form one cycle of
\* length three have been handed to get_ordered_plugins.
C2_Witness ==
    /\ op = "get_ordered_plugins"
    /\ WellTyped(plugins) /\ AllResolve(plugins) /\ DistinctKeys(plugins)
    /\ Len(plugins) = 3
    /\ \A p \in Range(plugins) :
          /\ OnCycle(p, plugins)
          /\ Cardinality(RequiredKeys(p)) = 1
          /\ key(p) \notin RequiredKeys(p)
    /\ ordering.error = "cycle"

\* the position at which a graph built from list holds key k: keys stand
\* in the order of their first insertion
FirstPos(list, k) ==
    CHOOSE i \in 1..Len(list) :
        key(list[i]) = k /\ \A j \in 1..(i - 1) : key(list[j]) # k

ResolvedKey(p, j) ==
    <<IF p.reqs[j].module = "" THEN p.module_name ELSE p.reqs[j].module,
      p.reqs[j].name>>

\* the pairs <<record, index of a requirement of it that is in no graph key>>
Unresolved(list) ==
    UNION {{<<p, j>> : j \in {i \in 1..Len(p.reqs) :
                                ResolvedKey(p, i) \notin KeysOf(Retained(list))}} :
           p \in Retained(list)}

\* pair a is found before pair b: its record stands earlier in the graph,
\* or it is an earlier requirement of the same record
FoundBefore(a, b, list) ==
    \/ FirstPos(list, key(a[1])) < FirstPos(list, key(b[1]))
    \/ (a[1] = b[1] /\ a[2] < b[2])

\* C3: if a record of a well-typed graph has a requirement whose key is no
\* key of the graph, get_ordered_plugins raises the PluginError that names
\* the requiring record and the missing requirement; of several unresolved
\* requirements it names the first found going through the records in
\* graph order and through each record's requirements in declared order.
C3_FirstMissingIsReported ==
    (/\ op = "get_ordered_plugins"
     /\ WellTyped(plugins) /\ ~AllResolve(plugins))
    => /\ result = "raised"
       /\ ordering.error = "missing"
       /\ \E a \in Unresolved(plugins) :
             /\ ordering.who = key(a[1])
             /\ ordering.req = ResolvedKey(a[1], a[2])
             /\ \A b \in Unresolved(plugins) : ~FoundBefore(b, a, plugins)

\* C3 witness: the first record has two unresolved requirements and a later
\* record has one as well.
C3_Witness ==
    /\ op = "get_ordered_plugins"
    /\ WellTyped(plugins) /\ DistinctKeys(plugins)
    /\ Len(plugins) >= 2
    /\ <<plugins[1], 1>> \in Unresolved(plugins)
    /\ <<plugins[1], 2>> \in Unresolved(plugins)
    /\ <<plugins[2], 1>> \in Unresolved(plugins)
    /\ ordering.error = "missing"

-----------------------------------------------------------------------------
(* Vocabulary of the claims about the phase drivers *)

\* what an ordering of the constructed records yields
OrderingSucceeds == get_ordered_plugins(plugins).error = ""

RecordOf(id) == CHOOSE p \in Range(plugins) : p.id = id

CallIds == [i \in 1..Len(calls) |-> calls[i].id]

\* how often the driver invoked the callback of record p
Times(p) == Cardinality({i \in 1..Len(calls) : calls[i].id = p.id})

\* the callback of a record with key k was invoked before that of record p
KeyCalledBefore(k, p) ==
    \E i, j \in 1..Len(calls) :
        i < j /\ key(RecordOf(calls[i].id)) = k /\ calls[j].id = p.id

\* C4 as claimed: whenever ordering succeeds, load invokes load exactly once
\* on every constructed record, and the load of a required record comes
\* before the load of the record that requires it.
C4_LoadsEveryConstructedRecord ==
    (op = "load" /\ OrderingSucceeds)
    => /\ \A p \in Range(plugins) : Times(p) = 1
       /\ \A p \in Range(plugins) : \A k \in RequiredKeys(p) : KeyCalledBefore(k, p)

\* C4 as amended: whenever ordering succeeds, load invokes load exactly once
\* on every record the graph holds, that is for each key on the last
\* constructed record with that key (on every constructed record when the
\* keys are distinct), never on an earlier record that shares its key with
\* a later one, and the load of a required record comes before the load of
\* the record that requires it.
C4_LoadsRetainedInDependencyOrder ==
    (op = "load" /\ OrderingSucceeds)
    => /\ \A p \in Retained(plugins) : Times(p) = 1
       /\ \A p \in Range(plugins) \ Retained(plugins) : Times(p) = 0
       /\ \A p \in Retained(plugins) : \A k \in RequiredKeys(p) : KeyCalledBefore(k, p)
       /\ DistinctKeys(plugins) => \A p \in Range(plugins) : Times(p) = 1

\* C4 witness: load ran over three constructed records, two of them with
\* the same key, and loaded a required record before the earlier constructed
\* record that requires it.
C4_Witness ==
    /\ op = "load" /\ OrderingSucceeds
    /\ Len(plugins) = 3 /\ ~DistinctKeys(plugins)
    /\ Len(calls) = 2
    /\ calls[1].id > calls[2].id
    /\ RequiredKeys(RecordOf(calls[2].id)) = {key(RecordOf(calls[1].id))}

\* C5 as claimed: whenever ordering succeeds, on_start of a required record
\* is invoked before on_start of the record that requires it.
C5_StartsInDependencyOrder ==
    (op = "on_start" /\ OrderingSucceeds)
    => \A p \in Retained(plugins) : \A k \in RequiredKeys(p) : KeyCalledBefore(k, p)

\* C5 as amended: on_start invokes on_start exactly once on every
\* constructed record, in construction order, whether or not an ordering
\* would succeed: it computes no dependency order, so a record is started
\* before a record it requires when it was constructed first.
C5_StartsInConstructionOrder ==
    op = "on_start" => CallIds = [i \in 1..Len(plugins) |-> plugins[i].id]

\* C5 witness: on_start ran over three records with distinct keys whose
\* dependency order differs from their construction order.
C5_Witness ==
    /\ op = "on_start" /\ OrderingSucceeds
    /\ Len(plugins) = 3 /\ DistinctKeys(plugins)
    /\ get_ordered_plugins(plugins).list # plugins
    /\ Len(calls) = 3

\* the records a driver that orders goes through: the dependency order,
\* or the records as constructed when the ordering fails
DriverSequence ==
    LET o == get_ordered_plugins(plugins)
    IN  IF o.error = "" THEN o.list ELSE plugins

\* the reports a driver made about failing callbacks: the name each gives
CallbackReports(what) ==
    LET r == SelectSeq(reports, LAMBDA x : x.what = what)
    IN  [i \in 1..Len(r) |-> r[i].who]

\* the local names of the records whose callback raised, in call order
RaisedNames ==
    LET c == SelectSeq(calls, LAMBDA x : x.raised)
    IN  [i \in 1..Len(c) |-> RecordOf(c[i].id).name]

\* C6: in load and in on_start a callback that raises stops nothing: the
\* driver invokes the callback of every record of its sequence exactly
\* once (on_start: the records as constructed; load: the records of the
\* graph, or all records as constructed when the ordering fails), makes one
\* report per failure that names the failing plugin (load: and one more
\* when the ordering failed), and returns normally, load with the command
\* surface; however many callbacks raise, wherever.
C6_FailuresAreIsolated ==
    /\ op = "on_start"
         => /\ \A p \in Range(plugins) : Times(p) = 1
            /\ Len(calls) = Len(plugins)
            /\ CallbackReports("Starting plugin") = RaisedNames
            /\ Len(reports) = Len(RaisedNames)
            /\ result = "None"
    /\ op = "load"
         => LET o == get_ordered_plugins(plugins)
                seq == IF o.error = "" THEN o.list ELSE plugins
            IN  /\ \A p \in Range(seq) : Times(p) = 1
                /\ Len(calls) = Len(seq)
                /\ o.error = "" => Range(seq) = Retained(plugins)
                /\ CallbackReports("Loading plugin") = RaisedNames
                /\ Len(reports) = Len(RaisedNames) + (IF o.error = "" THEN 0 ELSE 1)
                /\ result = "cli"

\* C6 witness: load went through three records, the callbacks of the first
\* and of the last raised, and two reports name them.
C6_Witness ==
    /\ op = "load"
    /\ Len(calls) = 3
    /\ calls[1].raised /\ ~calls[2].raised /\ calls[3].raised
    /\ Len(reports) = 2
    /\ result = "cli"

\* the tools-capable records of the driver's sequence, in its order
ToolsSequence == SelectSeq(DriverSequence, LAMBDA p : p.tools)

IsPrefix(s, t) == Len(s) <= Len(t) /\ \A i \in 1..Len(s) : s[i] = t[i]

\* call i is a tools callback that raised, of a record named tools_mode
ToolsModeFailedAt(i) ==
    calls[i].raised /\ RecordOf(calls[i].id).name = TOOLS_MODE

\* C7: in on_tools_load, when the tools callback of a record named
\* tools_mode raises, the phase returns False at once: that call is the last
\* one, no record after it in the sequence is invoked, and the calls made
\* before it are those of the tools-capable records that precede it.
C7_ToolsModeFailureAborts ==
    op = "on_tools_load"
    => \A i \in 1..Len(calls) :
          ToolsModeFailedAt(i)
          => /\ i = Len(calls)
             /\ result = "False"
             /\ LET t == ToolsSequence
                IN  \A j \in 1..i : calls[j].id = t[j].id

\* C7 witness: of three tools-capable records the second is named
\* tools_mode and its callback raised after the first one's had returned.
C7_Witness ==
    /\ op = "on_tools_load"
    /\ Len(ToolsSequence) = 3
    /\ Len(calls) = 2
    /\ ~calls[1].raised
    /\ ToolsModeFailedAt(2)
    /\ result = "False"

\* call i is a tools callback that raised, of a record not named tools_mode
OtherFailedAt(i) ==
    calls[i].raised /\ RecordOf(calls[i].id).name # TOOLS_MODE

\* C8 as claimed: when the tools callback of a record not named tools_mode
\* raises, every later tools-capable record of the sequence still has its
\* callback invoked and the phase returns False.
C8_OtherFailureReachesAllLater ==
    op = "on_tools_load"
    => \A i \in 1..Len(calls) :
          OtherFailedAt(i)
          => LET t == ToolsSequence
             IN  /\ result = "False"
                 /\ IsPrefix(CallIds, [j \in 1..Len(t) |-> t[j].id])
                 /\ Len(calls) = Len(t)

\* C8 as amended: when the tools callback of a record not named tools_mode
\* raises, the phase reports it and continues with the next tools-capable
\* record: every later tools-capable record of the sequence still has its
\* callback invoked, up to and including the first record named tools_mode
\* whose callback raises (which ends the phase), and the phase returns False.
C8_OtherFailureContinues ==
    op = "on_tools_load"
    => \A i \in 1..Len(calls) :
          OtherFailedAt(i)
          => LET t == ToolsSequence
             IN  /\ result = "False"
                 /\ IsPrefix(CallIds, [j \in 1..Len(t) |-> t[j].id])
                 /\ \/ Len(calls) = Len(t)
                    \/ ToolsModeFailedAt(Len(calls))
                 /\ RecordOf(calls[i].id).name
                        \in Range(CallbackReports("Loading tools plugin"))

\* C8 witness: the first of three tools callbacks raised, its record is not
\* named tools_mode, and the two later ones were invoked.
C8_Witness ==
    /\ op = "on_tools_load"
    /\ Len(ToolsSequence) = 3
    /\ Len(calls) = 3
    /\ OtherFailedAt(1)
    /\ result = "False"

-----------------------------------------------------------------------------
(* Claims about construction and about the fallback *)

\* the entry points that construct a record, and those whose construction
\* fails (an entry point that yields no plugin class does neither)
Constructs(i) == entry_points[i].outcome = "plugin"
Fails(i) ==
    entry_points[i].outcome \in {"missing", "load_error", "ctor_error",
                                 "ctor_missing", "ctor_exit", "no_dist"}

\* the error reports of _create_plugins that name entry point i
ErrorReports(i) ==
    {n \in 1..Len(import_log) :
        import_log[n].level = "error" /\ import_log[n].who = i}

\* the record collection holds exactly the records of the entry points that
\* constructed, in entry-point order
HoldsTheConstructed ==
    /\ \A n \in 1..Len(plugins) :
          /\ Constructs(plugins[n].id)
          /\ plugins[n] = Plugin(entry_points[plugins[n].id], plugins[n].id)
          /\ \A m \in 1..(n - 1) : plugins[m].id < plugins[n].id
    /\ \A i \in 1..Len(entry_points) :
          Constructs(i) => \E n \in 1..Len(plugins) : plugins[n].id = i

\* C9 as claimed: when __init__ has returned, a failing entry point did not
\* stop the construction of the others, the collection holds exactly the
\* constructed records in entry-point order, and every failing entry point
\* is reported exactly once, by a report that names it.
C9_EveryFailureReportedOnce ==
    (created /\ op = "idle")
    => /\ HoldsTheConstructed
       /\ \A i \in 1..Len(entry_points) :
             Cardinality(ErrorReports(i)) = (IF Fails(i) THEN 1 ELSE 0)

\* C9 as amended: when __init__ has returned, a failing entry point did not
\* stop the construction of the others, the collection holds exactly the
\* constructed records in entry-point order, and every failing entry point
\* is reported exactly once, by a report that names it, except a
\* missing-module failure while the loader ignores missing modules, which
\* is reported as no error (it is logged at debug level only).
C9_ConstructionIsIsolated ==
    (created /\ op = "idle")
    => /\ HoldsTheConstructed
       /\ \A i \in 1..Len(entry_points) :
             Cardinality(ErrorReports(i)) =
                (IF Fails(i) /\ ~(ignore_missing /\ entry_points[i].outcome = "missing")
                 THEN 1 ELSE 0)

\* C9 witness: of three entry points the second failed, the first and the
\* third yielded the two records of the collection, and one report names
\* the second.
C9_Witness ==
    /\ created /\ op = "idle"
    /\ Len(entry_points) = 3
    /\ Constructs(1) /\ Fails(2) /\ Constructs(3)
    /\ [n \in 1..Len(plugins) |-> plugins[n].id] = <<1, 3>>
    /\ Len(import_log) = 1
    /\ ErrorReports(2) = {1}

\* the ids of the records as constructed, and of the tools-capable ones
ConstructedIds == [i \in 1..Len(plugins) |-> plugins[i].id]
ConstructedToolsIds ==
    LET t == SelectSeq(plugins, LAMBDA p : p.tools)
    IN  [i \in 1..Len(t) |-> t[i].id]

\* C10 as claimed: when the ordering fails, a phase driver does not abort:
\* it goes through the records as constructed and invokes its callback on
\* every one it applies to (all records for load and on_start, all
\* tools-capable records for on_tools_load).
C10_FallbackReachesAll ==
    (op \in {"load", "on_start", "on_tools_load"} /\ ~OrderingSucceeds)
    => /\ op \in {"load", "on_start"} => CallIds = ConstructedIds /\ result # "raised"
       /\ op = "on_tools_load" => CallIds = ConstructedToolsIds /\ result # "raised"

\* C10 as amended: when the ordering fails, a phase driver does not abort:
\* it goes through the records as constructed and invokes its callback on
\* every one it applies to: all records for load and on_start; for
\* on_tools_load all tools-capable records, up to and including the first
\* one named tools_mode whose tools callback raises.
C10_FallbackToConstructionOrder ==
    /\ op \in {"load", "on_start"}
         => \/ CallIds = ConstructedIds /\ result # "raised"
            \/ OrderingSucceeds
    /\ op = "on_tools_load"
         => \/ /\ IsPrefix(CallIds, ConstructedToolsIds)
               /\ \/ CallIds = ConstructedToolsIds
                  \/ (calls # <<>> /\ ToolsModeFailedAt(Len(calls)))
               /\ result # "raised"
            \/ OrderingSucceeds

\* C10 witness: the ordering of three constructed records fails and load
\* went through all three in construction order, one callback raising.
C10_Witness ==
    /\ op = "load"
    /\ ~OrderingSucceeds
    /\ Len(plugins) = 3
    /\ CallIds = ConstructedIds
    /\ calls[2].raised
    /\ Len(reports) = 2

-----------------------------------------------------------------------------
(* Claims about what leaves the drivers and the factory *)

\* the driver went through the whole of seq
ReachedAll(seq) == CallIds = [i \in 1..Len(seq) |-> seq[i].id]

\* no record the driver applies to was left out: the callback of every
\* record of the graph (on_tools_load: of every tools-capable one) was
\* invoked once, unless on_tools_load stopped at a record named tools_mode
\* whose tools callback raised
NoneLeftOut ==
    \/ \A p \in Retained(plugins) :
          (op = "on_tools_load" => p.tools) => Times(p) = 1
    \/ /\ op = "on_tools_load"
       /\ calls # <<>>
       /\ ToolsModeFailedAt(Len(calls))

\* every callback that raised was reported by an error that names its
\* plugin, a tools_mode failure in on_tools_load (a debug line) excepted
RaisedAreReported(what) ==
    LET c == SelectSeq(calls, LAMBDA x :
                 x.raised /\ ~(op = "on_tools_load"
                               /\ RecordOf(x.id).name = TOOLS_MODE))
    IN  CallbackReports(what) = [i \in 1..Len(c) |-> RecordOf(c[i].id).name]

\* the three drivers that wrap each callback in a try/except
CaughtInPhase ==
    /\ op = "on_start"
         => /\ result # "raised"
            /\ ReachedAll(plugins)
            /\ RaisedAreReported("Starting plugin")
    /\ op = "load"
         => /\ result # "raised"
            /\ NoneLeftOut
            /\ RaisedAreReported("Loading plugin")
    /\ op = "on_tools_load"
         => /\ result # "raised"
            /\ NoneLeftOut
            /\ RaisedAreReported("Loading tools plugin")

\* C11 as claimed: no failure of a plugin callback leaves any of the four
\* phase drivers: each is caught and reported, and the callbacks of the
\* later records of the phase are still invoked, a failing tools_mode in
\* on_tools_load excepted.
C11_NoFailureEscapes ==
    /\ CaughtInPhase
    /\ op = "add_command_line_arguments"
         => /\ result # "raised"
            /\ ReachedAll(plugins)

\* C11 as amended: no failure of a plugin callback leaves on_tools_load,
\* on_start or load: each is caught and reported (a failing tools_mode in
\* on_tools_load by a debug line only), and the callbacks of the later
\* records of the phase are still invoked, a failing tools_mode in
\* on_tools_load excepted.  add_command_line_arguments catches nothing: the
\* first registration callback that raises leaves the driver unreported and
\* the callbacks after it are not invoked.
C11_FailuresCaughtExceptRegistration ==
    /\ CaughtInPhase
    /\ op = "add_command_line_arguments"
         => /\ IsPrefix(CallIds, ConstructedIds)
            /\ reports = <<>>
            /\ \A i \in 1..Len(calls) :
                  calls[i].raised => i = Len(calls) /\ result = "raised"
            /\ result = "raised" => calls # <<>> /\ calls[Len(calls)].raised
            /\ result # "raised" => CallIds = ConstructedIds

\* C11 witness: the registration callback of the second of three records
\* raised and left add_command_line_arguments; the third was not invoked.
C11_Witness ==
    /\ op = "add_command_line_arguments"
    /\ Len(plugins) = 3
    /\ Len(calls) = 2
    /\ ~calls[1].raised /\ calls[2].raised
    /\ result = "raised"

-----------------------------------------------------------------------------
(* Claims about the keys of requirements *)

\* the requirements record p declares with an empty module, and the key
\* such a requirement stands for: the record's own module with its name
EmptyModuleReqs(p) == {j \in 1..Len(p.reqs) : p.reqs[j].module = ""}
OwnModuleKey(p, j) == <<p.module_name, p.reqs[j].name>>

\* in sequence s a record with key k stands before record p
StandsBefore(s, k, p) ==
    \E q, r \in 1..Len(s) : q < r /\ key(s[q]) = k /\ s[r] = p

\* C12: a requirement declared with an empty module stands for the key made
\* of the declaring record's own module and the required name, in the
\* missing-requirement check as in the ordering: when no record of the graph
\* has that key the ordering fails with the missing-requirement error (a
\* record of that name in another module does not satisfy it) and the error
\* names the requirement with the module filled in; when a record has that
\* key the requirement is satisfied by it, and in a sequence returned the
\* declaring record stands after it; the ordering fails only if some
\* requirement, read this way, has no record or the records form a cycle.
C12_EmptyModuleIsOwnModule ==
    (op = "get_ordered_plugins" /\ WellTyped(plugins))
    => LET graph == Retained(plugins)
           keys == KeysOf(graph)
       IN  /\ \A p \in graph : \A j \in EmptyModuleReqs(p) :
                 /\ OwnModuleKey(p, j) \notin keys => ordering.error = "missing"
                 /\ ordering.error = ""
                      => StandsBefore(ordering.list, OwnModuleKey(p, j), p)
           /\ ordering.error = "missing" => ordering.req[1] # ""
           /\ \/ ordering.error = ""
              \/ \E p \in graph : \E j \in 1..Len(p.reqs) :
                    \/ j \in EmptyModuleReqs(p) /\ OwnModuleKey(p, j) \notin keys
                    \/ /\ j \notin EmptyModuleReqs(p)
                       /\ <<p.reqs[j].module, p.reqs[j].name>> \notin keys
              \/ ~Acyclic(plugins)

\* C12 witness: ("y", "a"), then ("x", "b") requiring ("", "a"), then
\* ("x", "a") were ordered: ("x", "b") stands last, after ("x", "a"), although
\* ("y", "a") was placed before it was first looked at.
C12_Witness ==
    /\ op = "get_ordered_plugins"
    /\ Len(plugins) = 3
    /\ key(plugins[1]) = <<"y", "a">>
    /\ key(plugins[2]) = <<"x", "b">> /\ plugins[2].reqs = <<Req("", "a")>>
    /\ key(plugins[3]) = <<"x", "a">>
    /\ ordering.error = ""
    /\ [i \in 1..3 |-> key(ordering.list[i])]
          = << <<"y", "a">>, <<"x", "a">>, <<"x", "b">> >>

-----------------------------------------------------------------------------
(* Claims about repeated orderings *)

\* two calls of get_ordered_plugins ended alike: the same sequence of
\* records, or the same error with the same record, requirement and names
SameOutcome(o1, o2) ==
    /\ o1.error = o2.error
    /\ o1.list = o2.list
    /\ o1.who = o2.who
    /\ o1.req = o2.req
    /\ o1.names = o2.names
    /\ o1.got = o2.got

-----------------------------------------------------------------------------
(* Claims about malformed requirement lists *)

\* the value the plugin of record p returns from get_required_plugins is
\* not a list of RequiredPlugin values
Malformed(p) == ~(p.isList /\ \A j \in 1..Len(p.reqs) : p.reqs[j].isReq)

\* C14 as claimed: if the plugin of any record of the graph returns
\* something that is not a list of RequiredPlugin values, get_ordered_plugins
\* raises the type PluginError naming that record and returns no sequence.
C14_AnyMalformedRecordIsNamed ==
    op = "get_ordered_plugins"
    => \A p \in Retained(plugins) :
          Malformed(p) => /\ result = "raised"
                          /\ ordering.error = "type"
                          /\ ordering.who = key(p)
                          /\ ordering.list = <<>>

\* C14 as amended: if the plugin of any record of the graph returns
\* something that is not a list of RequiredPlugin values, get_ordered_plugins
\* raises the type PluginError and returns no sequence; the error names one
\* record only, the first such record in graph order, and the class of the
\* value it returned.  Without such a record in the graph no type error is
\* raised.
C14_FirstMalformedInGraphIsNamed ==
    op = "get_ordered_plugins"
    => LET bad == {p \in Retained(plugins) : Malformed(p)}
       IN  /\ bad # {}
                => /\ result = "raised"
                   /\ ordering.error = "type"
                   /\ ordering.list = <<>>
                   /\ \E p \in bad :
                         /\ ordering.who = key(p)
                         /\ ordering.got = (IF p.isList THEN "list" ELSE "not a list")
                         /\ \A q \in bad : FirstPos(plugins, key(p))
                                              <= FirstPos(plugins, key(q))
           /\ bad = {} => ordering.error # "type"

\* C14 witness: the graph holds two malformed records, first one whose list
\* has an element that is no RequiredPlugin, then one that returns no list;
\* the error names the first.
C14_Witness ==
    /\ op = "get_ordered_plugins"
    /\ Len(plugins) >= 2 /\ DistinctKeys(plugins)
    /\ plugins[1].isList /\ Malformed(plugins[1])
    /\ ~plugins[2].isList
    /\ ordering.error = "type"
    /\ ordering.who = key(plugins[1])
    /\ ordering.got = "list"

-----------------------------------------------------------------------------
(* Claims about construction failures *)

\* entry point i left no record in the collection
NoRecord(i) == \A n \in 1..Len(plugins) : plugins[n].id # i

\* the debug lines of _create_plugins that name entry point i
DebugLines(i) ==
    {n \in 1..Len(import_log) :
        import_log[n].level = "debug" /\ import_log[n].who = i}

\* C15 as claimed: a missing-module failure met while constructing an entry
\* point, raised by load() or by the constructor, is kept apart from every
\* other construction failure: a loader that ignores missing modules gets no
\* record and makes no error report, a loader that does not reports an
\* error; every other construction failure is reported as an error whatever
\* the configuration.
C15_AnyMissingModuleIsIgnorable ==
    (created /\ op = "idle")
    => \A i \in 1..Len(entry_points) :
          /\ entry_points[i].outcome \in {"missing", "ctor_missing"}
               => /\ NoRecord(i)
                  /\ ignore_missing => ErrorReports(i) = {}
                  /\ ~ignore_missing => Cardinality(ErrorReports(i)) = 1
          /\ entry_points[i].outcome
                \in {"load_error", "ctor_error", "ctor_exit", "no_dist"}
               => /\ NoRecord(i)
                  /\ Cardinality(ErrorReports(i)) = 1

\* C15 as amended: a missing-module failure raised while loading the entry
\* point (the ModuleNotFoundError of entry_point.load()) is kept apart from
\* every other construction failure: when the loader ignores missing
\* modules the entry point yields no record and no error report (one debug
\* line), otherwise the failure is reported as an error; every other
\* construction failure (another exception of load(), an exception of the
\* constructor, a ModuleNotFoundError included, an instance that is no
\* CliPlugin, an entry point without dist) yields no record and is reported
\* as an error whatever the configuration.
C15_MissingModuleAtLoadIsDistinct ==
    (created /\ op = "idle")
    => \A i \in 1..Len(entry_points) :
          /\ entry_points[i].outcome = "missing"
               => /\ NoRecord(i)
                  /\ ignore_missing
                       => ErrorReports(i) = {} /\ Cardinality(DebugLines(i)) = 1
                  /\ ~ignore_missing
                       => Cardinality(ErrorReports(i)) = 1 /\ DebugLines(i) = {}
          /\ entry_points[i].outcome
                \in {"load_error", "ctor_error", "ctor_missing", "ctor_exit", "no_dist"}
               => /\ NoRecord(i)
                  /\ Cardinality(ErrorReports(i)) = 1
                  /\ DebugLines(i) = {}

\* C15 witness: a loader that ignores missing modules met a module missing
\* at load, then a constructor that raised ModuleNotFoundError, then a
\* plugin: one debug line, one error report, one record.
C15_Witness ==
    /\ created /\ op = "idle"
    /\ ignore_missing
    /\ Len(entry_points) = 3
    /\ entry_points[1].outcome = "missing"
    /\ entry_points[2].outcome = "ctor_missing"
    /\ entry_points[3].outcome = "plugin"
    /\ Len(plugins) = 1
    /\ Len(import_log) = 2
    /\ import_log[1].level = "debug" /\ import_log[1].who = 1
    /\ import_log[2].level = "error" /\ import_log[2].who = 2

\* the class of the exception that left create_from_entry_point for entry
\* point i, as the error report of _create_plugins names it
ReportedClasses(i) == {import_log[n].exc : n \in ErrorReports(i)}

\* C16 as claimed: every exception that leaves create_from_entry_point is a
\* PluginError, a missing-module failure excepted: no exception of another
\* class, raised by load() or by the constructor, leaves it.
C16_OnlyPluginErrorsLeave ==
    (created /\ op = "idle")
    => \A i \in 1..Len(entry_points) :
          \A c \in ReportedClasses(i) :
             \/ c = "PluginError"
             \/ c = "ModuleNotFoundError" /\ entry_points[i].outcome = "missing"

\* C16 as amended: an Exception raised by the plugin constructor (a
\* ModuleNotFoundError included), an instance that is no CliPlugin and an
\* entry point without dist leave create_from_entry_point as a PluginError;
\* an exception raised by entry_point.load() leaves it unwrapped, with its
\* own class, and so does a BaseException of the constructor that is no
\* Exception.
C16_ConstructorErrorsAreWrapped ==
    (created /\ op = "idle")
    => \A i \in 1..Len(entry_points) :
          LET o == entry_points[i].outcome
          IN  /\ o \in {"ctor_error", "ctor_missing", "no_dist"}
                   => ReportedClasses(i) = {"PluginError"}
              /\ o = "load_error" => ReportedClasses(i) = {"Exception"}
              /\ o = "ctor_exit" => ReportedClasses(i) = {"BaseException"}
              /\ o = "missing"
                   => ReportedClasses(i) =
                         (IF ignore_missing THEN {} ELSE {"ModuleNotFoundError"})
              /\ o \in {"plugin", "none"} => ReportedClasses(i) = {}

\* C16 witness: load() raised for the first entry point and the constructor
\* for the second: the first report names the exception of load(), the
\* second a PluginError.
C16_Witness ==
    /\ created /\ op = "idle"
    /\ Len(entry_points) >= 2
    /\ entry_points[1].outcome = "load_error"
    /\ entry_points[2].outcome = "ctor_error"
    /\ import_log[1].exc = "Exception"
    /\ import_log[2].exc = "PluginError"

-----------------------------------------------------------------------------
(* Claims about single drivers *)

\* C17: add_command_line_arguments invokes the registration callback of the
\* constructed records one by one in construction order, whatever they
\* require, each at most once; the first callback that raises leaves the
\* driver with its exception and the callbacks of the records after it are
\* not invoked; when none raises every record is reached and the driver
\* returns None.
C17_RegistrationInConstructionOrder ==
    op = "add_command_line_arguments"
    => /\ IsPrefix(CallIds, ConstructedIds)
       /\ \A p \in Range(plugins) : Times(p) <= 1
       /\ \A i \in 1..Len(calls) :
             IF calls[i].raised
             THEN i = Len(calls) /\ result = "raised"
             ELSE i < Len(calls) \/ (Len(calls) = Len(plugins) /\ result = "None")
       /\ calls = <<>> => plugins = <<>> /\ result = "None"

\* C17 witness: three records with distinct keys whose dependency order
\* differs from their construction order were registered in construction
\* order; the callback of the third raised.
C17_Witness ==
    /\ op = "add_command_line_arguments"
    /\ Len(plugins) = 3 /\ DistinctKeys(plugins)
    /\ OrderingSucceeds
    /\ get_ordered_plugins(plugins).list # plugins
    /\ CallIds = ConstructedIds
    /\ ~calls[1].raised /\ ~calls[2].raised /\ calls[3].raised
    /\ result = "raised"

\* C18: on_tools_load returns False exactly when the tools callback of at
\* least one record it invoked raised; otherwise it returns True, also when
\* the dependency order could not be computed and when a callback returned a
\* false value.
C18_FalseIffACallbackRaised ==
    op = "on_tools_load"
    => /\ result \in {"True", "False"}
       /\ result = "False" <=> \E i \in 1..Len(calls) : calls[i].raised

\* C18 witness: the ordering failed, on_tools_load went through two
\* tools-capable records as constructed, none raised, one returned a false
\* value, and the result is True.
C18_Witness ==
    /\ op = "on_tools_load"
    /\ ~OrderingSucceeds
    /\ Len(calls) = 2
    /\ \A i \in 1..2 : ~calls[i].raised
    /\ calls[1].returned = "False"
    /\ Len(reports) = 1
    /\ result = "True"

\* C19: on_tools_load invokes the tools callback of tools-capable records
\* only, of each at most once, and, when the ordering succeeds, of a record
\* only after the tools callback of every tools-capable record it requires.
C19_ToolsRecordsOnlyInOrder ==
    op = "on_tools_load"
    => /\ \A i \in 1..Len(calls) : RecordOf(calls[i].id).tools
       /\ \A p \in Range(plugins) : Times(p) <= 1
       /\ OrderingSucceeds
            => \A j \in 1..Len(calls) :
                  \A q \in Retained(plugins) :
                     (q.tools /\ key(q) \in RequiredKeys(RecordOf(calls[j].id)))
                     => \E i \in 1..(j - 1) : calls[i].id = q.id

\* C19 witness: of three ordered records one is not tools-capable and was
\* not invoked; the two others were, the later constructed one first.
C19_Witness ==
    /\ op = "on_tools_load"
    /\ OrderingSucceeds
    /\ Len(plugins) = 3 /\ DistinctKeys(plugins)
    /\ \E p \in Range(plugins) : ~p.tools /\ Times(p) = 0
    /\ Len(calls) = 2
    /\ calls[1].id > calls[2].id

-----------------------------------------------------------------------------
(* Claims about the cycle error *)

\* the records of the graph that no order can place: those on a requirement
\* cycle and those that require, directly or transitively, one on a cycle
Blocked(list) ==
    LET graph == Retained(list)
        cyclic == {key(q) : q \in {r \in graph : OnCycle(r, list)}}
    IN  {p \in graph :
            key(p) \in cyclic \/ ReachableKeys(p, list) \cap cyclic # {}}

\* how often sequence s lists n
Listed(s, n) == Cardinality({i \in 1..Len(s) : s[i] = n})

\* C20: when get_ordered_plugins fails on a cycle, the error lists the local
\* names of exactly the records that cannot be placed: one name for every
\* record on a cycle and for every record that requires, directly or
\* transitively, a record on a cycle, and none for a record that can be
\* ordered without the cycle.
C20_CycleErrorListsTheBlocked ==
    (op = "get_ordered_plugins" /\ ordering.error = "cycle")
    => LET blocked == Blocked(plugins)
       IN  /\ blocked # {}
           /\ Len(ordering.names) = Cardinality(blocked)
           /\ \A n \in Range(ordering.names) \cup {p.name : p \in Retained(plugins)} :
                 Listed(ordering.names, n)
                    = Cardinality({p \in blocked : p.name = n})

\* C20 witness: of three records one requires itself, one requires that one
\* and one can be ordered; the error lists the first two.
C20_Witness ==
    /\ op = "get_ordered_plugins"
    /\ ordering.error = "cycle"
    /\ Len(plugins) = 3 /\ DistinctKeys(plugins)
    /\ Cardinality({p \in Range(plugins) : OnCycle(p, plugins)}) = 1
    /\ Cardinality(Blocked(plugins)) = 2
    /\ Len(ordering.names) = 2
    /\ \E p \in Range(plugins) : p.name \notin Range(ordering.names)

-----------------------------------------------------------------------------
(* Claims about the passes of the sort *)

RECURSIVE SumOf(_)
SumOf(s) == IF s = <<>> THEN 0 ELSE Head(s) + SumOf(Tail(s))

\* C21: get_ordered_plugins ends on every record set, cyclic or not, with a
\* sequence or an error.  When the two validations pass, the while loop runs
\* at least one pass and at most n + 1 passes for the n records of the graph
\* (so for n constructed records as well): every pass but the last places
\* at least one record that was not placed before, the last pass places
\* none and ends the operation, with the full order when all n records are
\* placed and with the cycle error, which lists the others, when not.
C21_AtMostOnePassPerRecordAndOne ==
    op = "get_ordered_plugins"
    => LET n == Cardinality(Retained(plugins))
           k == ordering.passes
       IN  /\ ordering.error \in {"", "type", "missing", "cycle"}
           /\ ordering.error \in {"type", "missing"} => k = 0
           /\ ordering.error \in {"", "cycle"}
                => /\ k >= 1 /\ k <= n + 1 /\ k <= Len(plugins) + 1
                   /\ Len(ordering.placed) = k
                   /\ \A i \in 1..(k - 1) : ordering.placed[i] >= 1
                   /\ ordering.placed[k] = 0
                   /\ ordering.error = ""
                        => Len(ordering.list) = n /\ SumOf(ordering.placed) = n
                   /\ ordering.error = "cycle"
                        => /\ ordering.names # <<>>
                           /\ SumOf(ordering.placed) + Len(ordering.names) = n

\* C21 witness: three records, each requiring the next one constructed, took
\* four passes: three that placed one record each and one that placed none.
C21_Witness ==
    /\ op = "get_ordered_plugins"
    /\ Len(plugins) = 3
    /\ ordering.error = ""
    /\ ordering.passes = 4
    /\ ordering.placed = <<1, 1, 1, 0>>

-----------------------------------------------------------------------------
(* Claims about the order of the validations *)

\* C22: the three validations of get_ordered_plugins run in a fixed order
\* and the first that fails decides the error.  A graph with a record whose
\* requirement list is malformed fails with the type error whatever else is
\* wrong with it; a well-typed graph with a requirement that is no key of
\* the graph fails with the missing-requirement error whether or not it has
\* a cycle as well; the cycle error is raised, and a sequence is returned,
\* only for a well-typed graph whose requirements all resolve.
C22_FirstFailingValidationDecides ==
    op = "get_ordered_plugins"
    => /\ ~WellTyped(plugins) => ordering.error = "type"
       /\ (WellTyped(plugins) /\ ~AllResolve(plugins))
            => ordering.error = "missing"
       /\ ordering.error = "missing" => WellTyped(plugins)
       /\ ordering.error \in {"cycle", ""}
            => WellTyped(plugins) /\ AllResolve(plugins)

\* C22 witness: a well-typed graph of distinct keys in which one record
\* requires itself and another requires a key that is no key of the graph
\* failed with the missing-requirement error.
C22_Witness ==
    /\ op = "get_ordered_plugins"
    /\ WellTyped(plugins) /\ DistinctKeys(plugins)
    /\ \E p \in Range(plugins) : key(p) \in RequiredKeys(p)
    /\ \E p \in Range(plugins) :
          /\ key(p) \notin RequiredKeys(p)
          /\ ~(RequiredKeys(p) \subseteq KeysOf(Range(plugins)))
    /\ ordering.error = "missing"
    /\ result = "raised"

-----------------------------------------------------------------------------
(* Claims about the order among the records of one pass *)

\* the records of the graph built from list, in graph insertion order: the
\* retained record of each key, the keys in the order of first insertion
GraphOrder(list) ==
    LET R == Retained(list)
    IN  [r \in 1..Cardinality(R) |->
            CHOOSE p \in R :
                Cardinality({q \in R : FirstPos(list, key(q))
                                          < FirstPos(list, key(p))}) = r - 1]

\* the pass that placed the record at position i of the output
PassOf(placed, i) ==
    CHOOSE k \in 1..Len(placed) :
        /\ SumOf(SubSeq(placed, 1, k)) >= i
        /\ SumOf(SubSeq(placed, 1, k - 1)) < i

\* C23: in the sequence get_ordered_plugins returns, the records placed in
\* one pass, which are those that became placeable in it, stand in graph
\* insertion order; and when the graph insertion order already has every
\* record after the records it requires, the sequence returned is exactly
\* the graph insertion order.
C23_SamePassInInsertionOrder ==
    (op = "get_ordered_plugins" /\ ordering.error = "")
    => LET out == ordering.list
       IN  /\ \A i \in 1..(Len(out) - 1) :
                 PassOf(ordering.placed, i) = PassOf(ordering.placed, i + 1)
                 => FirstPos(plugins, key(out[i]))
                      < FirstPos(plugins, key(out[i + 1]))
           /\ RequirementsFirst(GraphOrder(plugins))
                => out = GraphOrder(plugins)

\* C23 witness: three records, the second requiring the first and the
\* third requiring both, were placed in one pass and returned as inserted.
C23_Witness ==
    /\ op = "get_ordered_plugins"
    /\ Len(plugins) = 3 /\ DistinctKeys(plugins)
    /\ RequiredKeys(plugins[2]) = {key(plugins[1])}
    /\ RequiredKeys(plugins[3]) = {key(plugins[1]), key(plugins[2])}
    /\ ordering.error = ""
    /\ ordering.placed = <<3, 0>>
    /\ ordering.list = plugins

-----------------------------------------------------------------------------
(* Claims about records that share a key *)

\* C24: records that share a (module, name) key make no operation fail.
\* The graph holds one record per distinct key, the last one added: the
\* validations and the sort see these records only, so an ordering fails
\* only when the last records of the keys are malformed, have a requirement
\* that is no key, or form a cycle; and the sequence get_ordered_plugins
\* returns holds exactly one record per distinct key, the last one
\* constructed with that key, and none of the earlier ones.
C24_LastRecordOfEachKeyIsKept ==
    op = "get_ordered_plugins"
    => /\ \/ ordering.error = ""
          \/ ~WellTyped(plugins)
          \/ ~AllResolve(plugins)
          \/ ~Acyclic(plugins)
       /\ ordering.error = ""
            => /\ Len(ordering.list) = Cardinality(KeysOf(Range(plugins)))
               /\ \A i \in 1..Len(plugins) :
                     plugins[i] \in Range(ordering.list)
                     <=> \A j \in (i + 1)..Len(plugins) :
                            key(plugins[j]) # key(plugins[i])

\* C24 witness: the first and the third record share a key, the first is
\* malformed and the third is not; the ordering returned the third record
\* and the second, which requires that key, and omitted the first.
C24_Witness ==
    /\ op = "get_ordered_plugins"
    /\ Len(plugins) = 3
    /\ key(plugins[1]) = key(plugins[3])
    /\ Malformed(plugins[1])
    /\ RequiredKeys(plugins[2]) = {key(plugins[3])}
    /\ ordering.error = ""
    /\ ordering.list = <<plugins[3], plugins[2]>>

-----------------------------------------------------------------------------
(* Claims about the record collection after construction *)

\* C25: once construction has built the record collection, no call of
\* add_command_line_arguments, on_tools_load, on_start, load or
\* get_ordered_plugins, and no return from one, changes it: whether the
\* call succeeds, falls back to construction order, isolates a failing
\* callback or raises, the collection holds after the step the records it
\* held before it, in the same order, and construction does not run again.
C25_CollectionIsOnlyRead ==
    [][created => (created' /\ plugins' = plugins)]_vars

\* C25 witness: on_tools_load has run on three constructed records whose
\* ordering fails, fell back to construction order and caught a raising
\* callback; the collection is the one construction builds.
C25_Witness ==
    /\ created
    /\ op = "on_tools_load"
    /\ ~OrderingSucceeds
    /\ Len(plugins) = 3
    /\ \E c \in 1..Len(calls) : calls[c].raised
    /\ result = "False"
    /\ plugins = create_plugins(entry_points, ignore_missing).list

=============================================================================
